---- MODULE Spec2Model ----
(***************************************************************************)
(* A model of the AdaRank learner of marcosfpr/adarank: the boosting loop  *)
(* (selection, amount to say, reweighting, saturation, validation          *)
(* checkpoint), fit / score / validation_score / predict, the Ranker       *)
(* capability and the evaluators it relies on.                             *)
(*                                                                         *)
(* The repository holds two copies of the learner: src/ensemble/adarank.rs *)
(* (ranking yields a permutation view of the list) and                     *)
(* ltrs/src/ensemble/adarank.rs (ranking reorders the list in place and an *)
(* iteration history is kept).  The variable `build` says which copy runs. *)
(*                                                                         *)
(* f32 values are fixed-point integers: the real x is the integer          *)
(* x * Scale, with three values of their own for +inf, -inf and NaN.       *)
(* Sequences are 1-based here and 0-based in the source; a feature index   *)
(* is 1-based in both.                                                     *)
(***************************************************************************)
EXTENDS Integers, Sequences, FiniteSets, TLC

----------------------------------------------------------------------------
(* Bounds of the model *)

\* the largest iteration budget T a learner is constructed with
MaxIter == 3
\* the number of fit() calls made on one learner
MaxFits == 2
\* fixed-point scale: the real 1.0 is the integer Scale
Scale == 10000
\* the longest RankList, and the longest permutation vector, a caller works with
MaxLen == 3
\* the most features a DataPoint grows to
MaxFeatures == 3

----------------------------------------------------------------------------
(* f32 arithmetic *)

\* f32::INFINITY, f32::NEG_INFINITY and f32::NAN
PInf == 2000000000
NInf == -2000000000
NaN == 2100000000

IsNaN(a) == a = NaN
IsInf(a) == a = PInf \/ a = NInf
IsFinite(a) == ~IsNaN(a) /\ ~IsInf(a)

Abs(n) == IF n < 0 THEN -n ELSE n
Sign(n) == IF n < 0 THEN -1 ELSE IF n > 0 THEN 1 ELSE 0

\* integer quotient rounded towards zero
Quot(a, b) == Sign(a) * Sign(b) * (Abs(a) \div Abs(b))

\* (a * b) / c on magnitudes, without an intermediate overflow: long
\* multiplication over the quotient and the remainder of b by c
MulDivNat(a, b, c) == a * (b \div c) + ((a * (b % c)) \div c)

FNeg(a) == IF IsNaN(a) THEN NaN ELSE -a

FAbs(a) == IF IsNaN(a) THEN NaN ELSE Abs(a)

FAdd(a, b) ==
    IF IsNaN(a) \/ IsNaN(b) THEN NaN
    ELSE IF IsInf(a) /\ IsInf(b) THEN (IF a = b THEN a ELSE NaN)
    ELSE IF IsInf(a) THEN a
    ELSE IF IsInf(b) THEN b
    ELSE a + b

FSub(a, b) == FAdd(a, FNeg(b))

\* the product of two fixed-point values
FMul(a, b) ==
    IF IsNaN(a) \/ IsNaN(b) THEN NaN
    ELSE IF IsInf(a) \/ IsInf(b)
         THEN (IF a = 0 \/ b = 0 THEN NaN
               ELSE IF Sign(a) * Sign(b) > 0 THEN PInf ELSE NInf)
    ELSE Sign(a) * Sign(b) * MulDivNat(Abs(a), Abs(b), Scale)

\* the quotient of two fixed-point values
FDiv(a, b) ==
    IF IsNaN(a) \/ IsNaN(b) THEN NaN
    ELSE IF IsInf(a) /\ IsInf(b) THEN NaN
    ELSE IF IsInf(a) THEN (IF Sign(a) * (IF b < 0 THEN -1 ELSE 1) > 0 THEN PInf ELSE NInf)
    ELSE IF IsInf(b) THEN 0
    ELSE IF b = 0 THEN (IF a = 0 THEN NaN ELSE IF a > 0 THEN PInf ELSE NInf)
    ELSE Sign(a) * Sign(b) * MulDivNat(Scale, Abs(a), Abs(b))

\* a / n for the integer n (`x / len as f32`)
FDivInt(a, n) == FDiv(a, n * Scale)

\* f32 comparisons: every comparison with NaN is false
FGt(a, b) == ~IsNaN(a) /\ ~IsNaN(b) /\ a > b
FLt(a, b) == ~IsNaN(a) /\ ~IsNaN(b) /\ a < b
FLe(a, b) == ~IsNaN(a) /\ ~IsNaN(b) /\ a <= b

\* e^x for a finite -Scale <= x <= Scale: the Taylor series, term by term
RECURSIVE ExpSeries(_, _, _)
ExpSeries(x, term, n) ==
    IF term = 0 \/ n > 12 THEN 0
    ELSE term + ExpSeries(x, Quot(term * x, n * Scale), n + 1)

\* e^-1 and e in fixed point
ExpMinusOne == ExpSeries(-Scale, Scale, 1)
ExpOne == ExpSeries(Scale, Scale, 1)

RECURSIVE ExpFinite(_)
ExpFinite(x) ==
    IF x < -20 * Scale THEN 0
    ELSE IF x < -Scale THEN MulDivNat(ExpFinite(x + Scale), ExpMinusOne, Scale)
    ELSE IF x > Scale THEN MulDivNat(ExpFinite(x - Scale), ExpOne, Scale)
    ELSE ExpSeries(x, Scale, 1)

\* f32::exp
FExp(a) ==
    IF IsNaN(a) THEN NaN
    ELSE IF a = PInf THEN PInf
    ELSE IF a = NInf THEN 0
    ELSE ExpFinite(a)

\* 2 * atanh(z) = ln((1+z)/(1-z)) for 0 <= z < Scale, as a series in z
RECURSIVE AtanhSeries(_, _, _)
AtanhSeries(z2, pow, n) ==
    IF pow = 0 \/ n > 41 THEN 0
    ELSE (pow \div n) + AtanhSeries(z2, (pow * z2) \div Scale, n + 2)

\* ln(r) for a fixed-point Scale <= r < 4 * Scale
LnNear(r) ==
    LET z == ((r - Scale) * Scale) \div (r + Scale)
    IN 2 * AtanhSeries((z * z) \div Scale, z, 1)

\* sqrt(10) and ln(10) in fixed point
Sqrt10 == (31623 * Scale) \div 10000
Ln10 == (23026 * Scale) \div 10000

\* log10(r) for a finite fixed-point r > 0
RECURSIVE Log10Finite(_)
Log10Finite(r) ==
    IF r >= 10 * Scale THEN Scale + Log10Finite(r \div 10)
    ELSE IF r < Scale THEN Log10Finite(r * 10) - Scale
    ELSE IF r >= Sqrt10 THEN (Scale \div 2) + Log10Finite(MulDivNat(Scale, r, Sqrt10))
    ELSE (LnNear(r) * Scale) \div Ln10

\* f32::log10
FLog10(a) ==
    IF IsNaN(a) THEN NaN
    ELSE IF a = PInf THEN PInf
    ELSE IF a < 0 THEN NaN
    ELSE IF a = 0 THEN NInf
    ELSE Log10Finite(a)

----------------------------------------------------------------------------
(* DataPoint, RankList, DataSet *)

\* a sequence given as a function of its indices, as a sequence value
Seq_of(f) == f \o <<>>

\* a DataPoint: its label and its features (f32, indexed from 1)
DataPoint_new(label, query_id, features) ==
    [label |-> label, query_id |-> query_id, features |-> features]

\* a DataPoint of the query 0
DataPoint(label, features) == DataPoint_new(label, 0, features)

\* a comparison of the labels alone
DataPoint_eq_by_label(a, b) == a.label = b.label

\* PartialEq for DataPoint: eq compares label and query_id, ne is its negation
DataPoint_eq(a, b) == a.label = b.label /\ a.query_id = b.query_id
DataPoint_ne(a, b) == ~DataPoint_eq(a, b)

\* Ord and PartialOrd for DataPoint: `self.label.cmp(&other.label)`
DataPoint_cmp(a, b) ==
    IF a.label < b.label THEN "Less"
    ELSE IF a.label > b.label THEN "Greater"
    ELSE "Equal"

\* a get_feature that takes its index from 0
get_feature_from_zero(dp, index) ==
    IF index >= Len(dp.features)
    THEN [ok |-> FALSE, value |-> 0, error |-> "FeatureIndexOutOfBounds",
          index |-> index]
    ELSE [ok |-> TRUE, value |-> dp.features[index + 1], error |-> "none",
          index |-> index]

\* DataPoint::get_feature: Err(FeatureIndexOutOfBounds) for index 0 and for an
\* index beyond the features
get_feature(dp, index) ==
    IF index = 0 \/ index > Len(dp.features)
    THEN [ok |-> FALSE, value |-> 0, error |-> "FeatureIndexOutOfBounds",
          index |-> index]
    ELSE [ok |-> TRUE, value |-> dp.features[index], error |-> "none",
          index |-> index]

\* DataPoint::add_feature: the feature is pushed behind the others
add_feature(dp, feature) == [dp EXCEPT !.features = Append(@, feature)]

\* DataPoint::set_features: the features are replaced
set_features(dp, new_features) == [dp EXCEPT !.features = new_features]

\* DataPoint::set_feature: only an index beyond the features is tested;
\* `index - 1` with index = 0 overflows (a panic of the debug build) or wraps
\* to usize::MAX (a panic of the indexing in the release build)
set_feature(dp, index, feature) ==
    IF index > Len(dp.features)
    THEN [outcome |-> "err", error |-> "FeatureIndexOutOfBounds", index |-> index,
          datapoint |-> dp]
    ELSE IF index = 0
    THEN [outcome |-> "panic", error |-> "none", index |-> index, datapoint |-> dp]
    ELSE [outcome |-> "ok", error |-> "none", index |-> index,
          datapoint |-> [dp EXCEPT !.features[index] = feature]]

\* a permute that fills the new vector from the far end of the permutation
permute_reversed(ranklist, permutation) ==
    Seq_of([i \in 1..Len(permutation) |->
               ranklist[permutation[Len(permutation) - i + 1]]])

\* RankList::permute, with 1-based indices: position i of the result holds the
\* item that was at permutation[i]
permute(ranklist, permutation) ==
    Seq_of([i \in 1..Len(permutation) |-> ranklist[permutation[i]]])

\* RankList::get, with the caller's index from 0
RankList_get(points, index) ==
    IF index < Len(points)
    THEN [ok |-> TRUE, value |-> points[index + 1], error |-> "none"]
    ELSE [ok |-> FALSE, value |-> DataPoint(0, <<>>),
          error |-> "RankListIndexOutOfBounds"]

\* the positions of a permutation vector whose index is beyond the list
out_of_bounds(points, permutation) ==
    {i \in 1..Len(permutation) : permutation[i] >= Len(points)}

\* the first of a non-empty set of positions
first_of(positions) == CHOOSE i \in positions : \A j \in positions : i <= j

\* RankList::permute as a caller sees it, with the caller's indices from 0.
\* The new vector is built item by item from the permutation vector and then
\* replaces the old one.  On an index beyond the list the copy under
\* memory_system/elements returns Err(RankListIndexOutOfBounds(index)) before
\* anything is replaced; the copy at the crate root indexes the vector
\* directly and panics.  Nothing else about the vector is looked at.
RankList_permute(copy, points, permutation) ==
    LET bad == out_of_bounds(points, permutation)
    IN IF bad = {}
       THEN [outcome |-> "ok", error |-> "none", index |-> 0,
             data_points |->
                 permute(points, [i \in 1..Len(permutation) |-> permutation[i] + 1])]
       ELSE IF copy = "ltrs"
       THEN [outcome |-> "panic", error |-> "none", index |-> 0,
             data_points |-> points]
       ELSE [outcome |-> "err", error |-> "RankListIndexOutOfBounds",
             index |-> permutation[first_of(bad)], data_points |-> points]

----------------------------------------------------------------------------
(* Evaluators *)

\* the evaluators a learner is constructed with
MAP == [metric |-> "MAP", limit |-> 0]
Precision(limit) == [metric |-> "P", limit |-> limit]

\* a count of the relevant items that takes only label 1 for relevant
NumRelevantDocs_exact(ranklist, i) ==
    Cardinality({j \in 1..i : ranklist[j].label = 1})

\* the number of items with label > 0 among the first i
NumRelevantDocs(ranklist, i) ==
    Cardinality({j \in 1..i : ranklist[j].label > 0})

\* the sum, over the relevant positions up to i, of num_relevant_docs / position
RECURSIVE AveragePrecision(_, _)
AveragePrecision(ranklist, i) ==
    IF i = 0 THEN 0
    ELSE AveragePrecision(ranklist, i - 1)
         + (IF ranklist[i].label > 0
            THEN FDivInt(NumRelevantDocs(ranklist, i) * Scale, i)
            ELSE 0)

\* a MAP that takes an item for relevant when it carries features
MAP_evaluate_ranklist_by_features(ranklist) ==
    LET seen == Seq_of([i \in 1..Len(ranklist) |->
                           DataPoint(Len(ranklist[i].features), <<>>)])
        n == NumRelevantDocs(seen, Len(seen))
    IN IF n = 0 THEN 0
       ELSE FDivInt(AveragePrecision(seen, Len(seen)), n)

\* MAP::evaluate_ranklist
MAP_evaluate_ranklist(ranklist) ==
    LET n == NumRelevantDocs(ranklist, Len(ranklist))
    IN IF n = 0 THEN 0
       ELSE FDivInt(AveragePrecision(ranklist, Len(ranklist)), n)

\* a Precision that counts every item of label > 0
Precision_evaluate_ranklist_relevant(limit, ranklist) ==
    LET upto == IF limit < Len(ranklist) THEN limit ELSE Len(ranklist)
        precision_score == Cardinality({i \in 1..upto : ranklist[i].label > 0})
    IN IF limit = 0 THEN 0
       ELSE FDivInt(precision_score * Scale, limit)

\* Precision::evaluate_ranklist: the loop stops at the end of the list
Precision_evaluate_ranklist(limit, ranklist) ==
    LET upto == IF limit < Len(ranklist) THEN limit ELSE Len(ranklist)
        precision_score == Cardinality({i \in 1..upto : ranklist[i].label = 1})
    IN IF limit = 0 THEN 0
       ELSE FDivInt(precision_score * Scale, limit)

\* Evaluator::evaluate_ranklist of the boxed evaluator
evaluate_ranklist(ev, ranklist) ==
    IF ev.metric = "MAP" THEN MAP_evaluate_ranklist(ranklist)
    ELSE Precision_evaluate_ranklist(ev.limit, ranklist)

\* evaluate_ranklist of every list of a dataset
evaluate_each(ev, dataset) ==
    Seq_of([i \in 1..Len(dataset) |-> evaluate_ranklist(ev, dataset[i])])

\* the f32 sum of a sequence, accumulated from the first element on
RECURSIVE FSum(_, _)
FSum(seq, n) ==
    IF n = 0 THEN 0 ELSE FAdd(FSum(seq, n - 1), seq[n])

\* an evaluate_dataset that returns the accumulated score undivided
evaluate_dataset_undivided(ev, dataset) ==
    IF Len(dataset) = 0
    THEN [ok |-> FALSE, value |-> 0, error |-> "EvaluationError"]
    ELSE [ok |-> TRUE, value |-> FSum(evaluate_each(ev, dataset), Len(dataset)),
          error |-> "none"]

\* Evaluator::evaluate_dataset: Err(EvaluationError) on an empty dataset, else
\* the mean of evaluate_ranklist
evaluate_dataset(ev, dataset) ==
    IF Len(dataset) = 0
    THEN [ok |-> FALSE, value |-> 0, error |-> "EvaluationError"]
    ELSE [ok |-> TRUE,
          value |-> FDivInt(FSum(evaluate_each(ev, dataset), Len(dataset)),
                            Len(dataset)),
          error |-> "none"]

----------------------------------------------------------------------------
(* Ranker *)

\* a predict that falls back on the nearest feature when get_feature fails
WeakRanker_predict_nearest(feature_id, dp) ==
    LET r == get_feature(dp, feature_id)
    IN IF r.ok THEN r.value
       ELSE IF Len(dp.features) = 0 THEN 0
       ELSE IF feature_id = 0 THEN dp.features[1]
       ELSE dp.features[Len(dp.features)]

\* WeakRanker::predict: the feature, or 0.0 when get_feature fails
WeakRanker_predict(feature_id, dp) ==
    LET r == get_feature(dp, feature_id)
    IN IF r.ok THEN r.value ELSE 0

\* AdaRank::predict: score += feature_value * weight over the zipped ensemble
RECURSIVE AdaRank_predict(_, _, _, _)
AdaRank_predict(rk, wt, dp, n) ==
    IF n = 0 THEN 0
    ELSE FAdd(AdaRank_predict(rk, wt, dp, n - 1),
              FMul(WeakRanker_predict(rk[n], dp), wt[n]))

\* the predicted score of every item of a list
scores_weak(feature_id, ranklist) ==
    Seq_of([i \in 1..Len(ranklist) |-> WeakRanker_predict(feature_id, ranklist[i])])

scores_ensemble(rk, wt, ranklist) ==
    Seq_of([i \in 1..Len(ranklist) |->
               AdaRank_predict(rk, wt, ranklist[i],
                               IF Len(rk) < Len(wt) THEN Len(rk) ELSE Len(wt))])

\* `b.partial_cmp(a).unwrap()` panics when a comparison meets a NaN; a list of
\* fewer than two items is never compared
sort_panics(scores) ==
    Len(scores) >= 2 /\ \E i \in 1..Len(scores) : IsNaN(scores[i])

\* the stable descending sort of the indices by score: the index i comes after
\* every index of a greater score and every earlier index of an equal score
sorted_indices(scores) ==
    LET before(i) == {j \in 1..Len(scores) :
                        scores[j] > scores[i] \/ (scores[j] = scores[i] /\ j < i)}
    IN Seq_of([k \in 1..Len(scores) |->
                  CHOOSE i \in 1..Len(scores) : Cardinality(before(i)) = k - 1])

\* Ranker::rank: the list in the ranked order
rank(ranklist, scores) == permute(ranklist, sorted_indices(scores))

\* Ranker::rank_dataset with the ensemble
rank_dataset(rk, wt, dataset) ==
    Seq_of([i \in 1..Len(dataset) |->
               rank(dataset[i], scores_ensemble(rk, wt, dataset[i]))])

rank_dataset_panics(rk, wt, dataset) ==
    \E i \in 1..Len(dataset) : sort_panics(scores_ensemble(rk, wt, dataset[i]))

----------------------------------------------------------------------------
(* The AdaRank learner *)

VARIABLES
    build,                       \* "adarank" (src/ensemble) or "ltrs" (ltrs/src/ensemble)
    training_dataset,            \* DataSet: a sequence of RankLists
    validation_dataset,          \* Option<DataSet>: [some, lists]
    scorer,                      \* Box<dyn Evaluator>
    iter,                        \* the number of iterations to be performed
    max_consecutive_selections,
    consecutive_selections,
    previous_feature,
    tolerance,
    score_training,
    score_validation,
    features,                    \* the candidate features, in order
    features_arg,                \* the `features` argument of new(): [some, value]
    previous_traning_score,
    previous_validation_score,
    sample_weights,
    ranker_weights,
    best_weights,
    rankers,                     \* the feature_id of every WeakRanker of the ensemble
    best_rankers,
    used_features,
    history,                     \* Vec<AdaRankIter> (the ltrs copy only)
    pc,                          \* where the caller is: "idle", "learning", "stopped", "panicked"
    it,                          \* the loop variable of learn()
    fit_result,                  \* what the last fit() returned ("none" before the first)
    fits,                        \* the number of fit() calls begun
    trace,                       \* what each iteration of the current fit() did
    entry,                       \* the learner as it was when fit() was last called
    subject,                     \* the object the caller works on: "learner", "ranklist",
                                 \* "dataset", "datapoint"
    data_points,                 \* RankList::data_points of the caller's RankList
    data_set,                    \* the caller's DataSet
    datapoint,                   \* the caller's DataPoint
    call,                        \* the last call on that object and what it returned
    storage,                     \* Storage: [file, stack], the bytes of STORAGE.ltr and the
                                 \* segments of STACK.ltr
    live                         \* the segments insert returned that were not deleted
                                 \* since, each with the bytes it was given

config == <<build, scorer, iter, max_consecutive_selections, tolerance, features,
            features_arg>>
datasets == <<training_dataset, validation_dataset>>
saturation == <<consecutive_selections, previous_feature, used_features>>
scores == <<score_training, score_validation>>
previous_scores == <<previous_traning_score, previous_validation_score>>
ensemble == <<rankers, ranker_weights>>
checkpoint == <<best_rankers, best_weights>>
control == <<pc, it, fit_result, fits>>
disk == <<storage, live>>
objects == <<subject, data_points, data_set, datapoint, call, disk>>

vars == <<config, datasets, saturation, scores, previous_scores, sample_weights,
          ensemble, checkpoint, history, control, trace, entry, objects>>

\* `previous_feature: usize::MAX`, the value no feature has
NoFeature == -1

\* the candidate features of a learner constructed with `features: None`:
\* `(1..training_dataset[0].len() + 1).collect()`, the len() of a RankList
default_features(dataset) == [i \in 1..Len(dataset[1]) |-> i]

\* AdaRank::initialize_weights: len copies of 1.0 / len
initialize_weights(len) == [i \in 1..len |-> FDivInt(Scale, len)]

\* what a ranking leaves in the dataset: the ltrs copy reorders the list in
\* place, the other copy ranks a permutation view and leaves the list alone
ranked_in_place(dataset, ranked) == IF build = "ltrs" THEN ranked ELSE dataset

\* every list ranked by one WeakRanker
rank_by_weak(feature_id, dataset) ==
    Seq_of([i \in 1..Len(dataset) |->
               rank(dataset[i], scores_weak(feature_id, dataset[i]))])

\* the element-wise product of two sequences of f32
FMulEach(a, b) == Seq_of([i \in 1..Len(a) |-> FMul(a[i], b[i])])

\* AdaRank::evaluate_weak_ranker, given the lists as ranked by the WeakRanker
evaluate_weak_ranker(ranked) ==
    FSum(FMulEach(evaluate_each(scorer, ranked), sample_weights), Len(ranked))

\* a comparison that lets a later candidate of the same score win
select_compare_latest(feature, score, best) ==
    IF FGt(score, best.best_score) \/ score = best.best_score
    THEN [best_score |-> score, best_feature |-> feature]
    ELSE best

\* one candidate of the loop of select_weak_ranker, given its score
select_compare(feature, score, best) ==
    IF FGt(score, best.best_score)
    THEN [best_score |-> score, best_feature |-> feature]
    ELSE best

\* the loop without its test of the saturated set
is_used_ignored(feature) == FALSE

\* `if self.used_features.contains(feature) { continue; }`
is_used(feature) == feature \in used_features

\* the loop of AdaRank::select_weak_ranker from the k-th candidate on
RECURSIVE select_loop(_, _, _)

\* the k-th candidate, given the lists as ranked by it
select_ranked(k, best, dataset, ranked) ==
    select_loop(k + 1,
                select_compare(features[k], evaluate_weak_ranker(ranked), best),
                ranked_in_place(dataset, ranked))

select_loop(k, best, dataset) ==
    IF k > Len(features)
    THEN [best_score |-> best.best_score, best_feature |-> best.best_feature,
          dataset |-> dataset]
    ELSE IF is_used(features[k])
    THEN select_loop(k + 1, best, dataset)
    ELSE select_ranked(k, best, dataset, rank_by_weak(features[k], dataset))

\* the end of select_weak_ranker without its test of best_score
select_result_unchecked(r) ==
    [some |-> TRUE, feature_id |-> r.best_feature, dataset |-> r.dataset]

\* the end of select_weak_ranker: None when best_score < 0.0
select_result(r) ==
    [some |-> ~FLt(r.best_score, 0), feature_id |-> r.best_feature,
     dataset |-> r.dataset]

\* AdaRank::select_weak_ranker
select_weak_ranker ==
    select_result(select_loop(1, [best_score |-> -Scale, best_feature |-> 0],
                              training_dataset))

\* the ratio the amount to say is the logarithm of: the copy under src/ takes
\* the absolute values, the ltrs copy does not
say_ratio(num, denom) ==
    IF build = "ltrs" THEN FDiv(num, denom) ELSE FDiv(FAbs(num), FAbs(denom))

\* num and denom of the 2nd step of learn()
say_num(score) ==
    FSum(FMulEach(Seq_of([i \in 1..Len(score) |-> FAdd(Scale, score[i])]),
                  sample_weights), Len(score))
say_denom(score) ==
    FSum(FMulEach(Seq_of([i \in 1..Len(score) |-> FSub(Scale, score[i])]),
                  sample_weights), Len(score))

\* 2nd step of learn(): 0.5 * log10(num / denom), given the score of every
\* list as ranked by the selected WeakRanker
amount_to_say(score) ==
    FDivInt(FLog10(say_ratio(say_num(score), say_denom(score))), 2)

\* the saturation tracking of learn(): [status, consecutive_selections, used_features]
track_saturation(selected_feature, status) ==
    IF previous_feature = selected_feature
    THEN IF consecutive_selections + 1 = max_consecutive_selections
         THEN [status |-> "Satured", consecutive_selections |-> 0,
               used_features |-> used_features \cup {selected_feature}]
         ELSE [status |-> status,
               consecutive_selections |-> consecutive_selections + 1,
               used_features |-> used_features]
    ELSE [status |-> status, consecutive_selections |-> consecutive_selections,
          used_features |-> used_features]

\* 5th step of learn(): weight *= exp(-amount_to_say * exp_score) / total_score
reweight(weight, say, exp_score, total_score) ==
    FMul(weight, FDiv(FExp(FMul(FNeg(say), exp_score)), total_score))

\* 4th step of learn(), on the training dataset: every list ranked by the
\* ensemble rk, wt and evaluated
learn_training_ranked(dataset, ranked) ==
    [panics |-> FALSE, dataset |-> ranked_in_place(dataset, ranked),
     score |-> evaluate_each(scorer, ranked)]

learn_training(rk, wt, dataset) ==
    IF rank_dataset_panics(rk, wt, dataset)
    THEN [panics |-> TRUE, dataset |-> dataset, score |-> <<>>]
    ELSE learn_training_ranked(dataset, rank_dataset(rk, wt, dataset))

\* the validation part of learn(): a non-empty validation dataset is ranked by
\* the ensemble and evaluated; the ensemble is to be snapshot when the score
\* exceeds score_validation
takes_snapshot_on_tie(val_score) ==
    FGt(val_score, score_validation) \/ val_score = score_validation

\* `if val_score > self.score_validation`
takes_snapshot(val_score) == FGt(val_score, score_validation)

learn_validation_scored(lists, val_score) ==
    [panics |-> FALSE, lists |-> lists, val_score |-> val_score,
     snapshot |-> takes_snapshot(val_score)]

learn_validation_ranked(ranked) ==
    learn_validation_scored(ranked_in_place(validation_dataset.lists, ranked),
                            evaluate_dataset(scorer, ranked).value)

learn_validation(rk, wt) ==
    IF ~(validation_dataset.some /\ Len(validation_dataset.lists) > 0)
    THEN [panics |-> FALSE, lists |-> validation_dataset.lists, val_score |-> 0,
          snapshot |-> FALSE]
    ELSE IF rank_dataset_panics(rk, wt, validation_dataset.lists)
    THEN [panics |-> TRUE, lists |-> validation_dataset.lists, val_score |-> 0,
          snapshot |-> FALSE]
    ELSE learn_validation_ranked(rank_dataset(rk, wt, validation_dataset.lists))

\* what one run of the body of the loop of learn() comes to; these are the
\* values of an iteration whose selection failed
NoIteration ==
    [selected |-> FALSE, panics |-> FALSE, stops |-> TRUE,
     selected_feature |-> 0, amount_to_say |-> 0, delta |-> 0, status |-> "None",
     consecutive_selections |-> consecutive_selections,
     used_features |-> used_features,
     rankers |-> rankers, ranker_weights |-> ranker_weights,
     training_score |-> 0, val_score |-> 0, snapshot |-> FALSE,
     training_dataset |-> training_dataset,
     validation_lists |-> validation_dataset.lists,
     record |-> <<>>,
     sample_weights |-> sample_weights]

\* the progress check with `<` for `<=`
stops_training_strict(delta) == FLt(delta, 0)

\* `if delta <= 0.0 { ...pop(); break; }`
stops_training(delta) == FLe(delta, 0)

\* the end of the body: the progress check, the saturation tracking, the
\* record of the iteration and the new weights
learn_finish(feature, say, rk, wt, tr, va, training_score, exp_scores, delta, sat) ==
    [selected |-> TRUE, panics |-> FALSE, stops |-> stops_training(delta),
     selected_feature |-> feature, amount_to_say |-> say, delta |-> delta,
     status |-> sat.status,
     consecutive_selections |-> sat.consecutive_selections,
     used_features |-> sat.used_features,
     rankers |-> rk, ranker_weights |-> wt,
     training_score |-> training_score, val_score |-> va.val_score,
     snapshot |-> va.snapshot,
     training_dataset |-> tr.dataset,
     validation_lists |-> va.lists,
     record |-> [iteration |-> it, feature |-> feature,
                 train_score |-> training_score,
                 train_improvement |-> FSub(training_score, previous_traning_score),
                 val_score |-> va.val_score,
                 val_improvement |-> FSub(va.val_score, previous_validation_score),
                 status |-> sat.status],
     sample_weights |->
        Seq_of([i \in 1..Len(sample_weights) |->
                   reweight(sample_weights[i], say, exp_scores[i],
                            FSum(exp_scores, Len(exp_scores)))])]

\* delta = training_score + tolerance - previous_traning_score
learn_delta(feature, say, rk, wt, tr, va, training_score, exp_scores, delta) ==
    learn_finish(feature, say, rk, wt, tr, va, training_score, exp_scores, delta,
                 track_saturation(feature, IF FGt(delta, 0) THEN "Ok" ELSE "Bad"))

learn_scored(feature, say, rk, wt, tr, va, training_score) ==
    learn_delta(feature, say, rk, wt, tr, va, training_score,
                Seq_of([i \in 1..Len(tr.score) |-> FExp(FNeg(tr.score[i]))]),
                FSub(FAdd(training_score, tolerance), previous_traning_score))

\* the 4th step done: a panic of either ranking ends the call
learn_evaluated(feature, say, rk, wt, tr, va) ==
    IF tr.panics \/ va.panics
    THEN [NoIteration EXCEPT !.selected = TRUE, !.panics = TRUE,
                             !.selected_feature = feature, !.amount_to_say = say,
                             !.rankers = rk, !.ranker_weights = wt]
    ELSE learn_scored(feature, say, rk, wt, tr, va,
                      FDivInt(FSum(tr.score, Len(tr.score)), Len(training_dataset)))

\* 3rd step: the WeakRanker and its amount to say are pushed
learn_pushed(feature, say, dataset, rk, wt) ==
    learn_evaluated(feature, say, rk, wt,
                    learn_training(rk, wt, dataset), learn_validation(rk, wt))

learn_say(feature, dataset, say) ==
    learn_pushed(feature, say, dataset,
                 Append(rankers, feature), Append(ranker_weights, say))

\* 2nd step, given the lists as ranked by the selected WeakRanker
learn_ranked(sel, ranked) ==
    learn_say(sel.feature_id, ranked_in_place(sel.dataset, ranked),
              amount_to_say(evaluate_each(scorer, ranked)))

\* 1st step done
learn_selected(sel) ==
    IF ~sel.some
    THEN [NoIteration EXCEPT !.training_dataset = sel.dataset]
    ELSE learn_ranked(sel, rank_by_weak(sel.feature_id, sel.dataset))

\* one run of the body of the loop of learn()
Iteration == learn_selected(select_weak_ranker)

----------------------------------------------------------------------------
----------------------------------------------------------------------------
(* The inputs a learner is constructed with *)

\* the items: a label and two features, each 0.0, 1.0 or 2.0
Rel(a, b) == DataPoint(1, <<a * Scale, b * Scale>>)
NonRel(a, b) == DataPoint(0, <<a * Scale, b * Scale>>)

\* the lists the datasets are made of:
\*   1 feature 1 ranks the relevant item first, feature 2 ranks it last;
\*   2 feature 2 ranks the relevant item first, feature 1 leaves it last;
\*   3 equal features, the relevant item last;
\*   4 equal features, the relevant item first;
\*   5 no relevant item;
\*   6 a single relevant item
RankLists ==
    << <<Rel(1, 0), NonRel(0, 1)>>,
       <<NonRel(1, 0), Rel(0, 1)>>,
       <<NonRel(1, 1), Rel(1, 1)>>,
       <<Rel(1, 1), NonRel(1, 1)>>,
       <<NonRel(1, 0), NonRel(0, 1)>>,
       <<Rel(0, 1)>> >>

\* a dataset of three lists on which the weighted scores of the two features
\* cross: feature 1 scores best under the initial sample weights, feature 2
\* under the weights reached after two iterations of feature 1
Switching ==
    << <<Rel(0, 2), NonRel(0, 0), Rel(0, 1)>>,
       <<Rel(1, 2), Rel(2, 0), NonRel(2, 1), Rel(1, 2), NonRel(1, 1)>>,
       <<Rel(1, 0), NonRel(1, 2), NonRel(1, 1), NonRel(2, 2)>> >>

\* the training datasets: one list, or two lists in the order of RankLists,
\* or the three lists of Switching
TrainingSets ==
    {<<RankLists[i]>> : i \in DOMAIN RankLists}
    \cup {<<RankLists[p[1]], RankLists[p[2]]>> :
            p \in {q \in (DOMAIN RankLists) \X (DOMAIN RankLists) : q[1] <= q[2]}}
    \cup {Switching}

\* the validation datasets: none, an empty one, or one list
ValidationSets ==
    {[some |-> FALSE, lists |-> <<>>], [some |-> TRUE, lists |-> <<>>]}
    \cup {[some |-> TRUE, lists |-> <<RankLists[i]>>] : i \in {2, 3}}

Scorers == {MAP}
Tolerances == {0, Scale \div 10}
\* the explicit candidate features: none; one feature; both features in
\* reverse order; the invalid index 0 and an index beyond the features of
\* every item
FeatureSubsets == {<<>>, <<2>>, <<2, 1>>, <<0, 3>>}

\* no call has been made on the caller's object
NoCall == [op |-> "none", arg |-> <<>>, before |-> <<>>, result |-> <<>>]

\* the caller has no RankList, DataSet or DataPoint of its own
\* Storage::new: an empty file and an empty stack of deleted segments
EmptyStorage == [file |-> <<>>, stack |-> <<>>]

NoObjects ==
    /\ data_points = <<>>
    /\ data_set = <<>>
    /\ datapoint = DataPoint(0, <<>>)
    /\ storage = EmptyStorage
    /\ live = {}

\* AdaRank::new
Init ==
    /\ build \in {"adarank", "ltrs"}
    /\ scorer \in Scorers
    /\ iter \in 0..MaxIter
    /\ max_consecutive_selections \in 1..2
    /\ tolerance \in Tolerances
    /\ \E explicit \in BOOLEAN :
          IF explicit
          THEN /\ features \in FeatureSubsets
               /\ features_arg = [some |-> TRUE, value |-> features]
               /\ training_dataset \in TrainingSets \cup {<<>>}
          ELSE /\ training_dataset \in TrainingSets
               /\ features_arg = [some |-> FALSE, value |-> <<>>]
               /\ features = default_features(training_dataset)
    /\ validation_dataset \in ValidationSets
    /\ sample_weights = initialize_weights(Len(training_dataset))
    /\ consecutive_selections = 0
    /\ previous_feature = NoFeature
    /\ score_training = 0
    /\ score_validation = 0
    /\ previous_traning_score = 0
    /\ previous_validation_score = 0
    /\ rankers = <<>>
    /\ best_rankers = <<>>
    /\ ranker_weights = <<>>
    /\ best_weights = <<>>
    /\ used_features = {}
    /\ history = <<>>
    /\ pc = "idle"
    /\ it = 0
    /\ fit_result = "none"
    /\ fits = 0
    /\ trace = <<>>
    /\ entry = [training_dataset |-> training_dataset, rankers |-> <<>>,
                ranker_weights |-> <<>>, used_features |-> {}, history |-> <<>>,
                succeeded |-> FALSE, selected |-> <<>>]
    /\ subject = "learner"
    /\ NoObjects
    /\ call = NoCall

----------------------------------------------------------------------------
(* fit() *)

\* the features the iterations of a trace selected, in order
has_selected(e) == e.kind \in {"rolled_back", "accepted"}
selections(events) ==
    LET chosen == SelectSeq(events, has_selected)
    IN Seq_of([i \in 1..Len(chosen) |-> chosen[i].feature])

\* the caller calls fit(): learn() starts its loop
FitCall ==
    /\ pc = "idle"
    /\ fits < MaxFits
    /\ pc' = "learning"
    /\ it' = 0
    /\ fits' = fits + 1
    /\ trace' = <<>>
    /\ entry' = [training_dataset |-> training_dataset, rankers |-> rankers,
                 ranker_weights |-> ranker_weights,
                 used_features |-> used_features, history |-> history,
                 succeeded |-> entry.succeeded \/ fit_result = "Ok",
                 selected |-> entry.selected \o selections(trace)]
    /\ UNCHANGED <<config, datasets, saturation, scores, previous_scores,
                   sample_weights, ensemble, checkpoint, history, fit_result,
                   objects>>

\* the weighted score select_weak_ranker computes for every candidate feature,
\* in candidate order, under the sample weights an iteration starts with
RECURSIVE weighted_loop(_, _)

\* the score of the k-th candidate, given the lists as ranked by it, followed
\* by the scores of the later candidates on the lists as that ranking left them
weighted_ranked(k, dataset, ranked) ==
    <<evaluate_weak_ranker(ranked)>>
        \o weighted_loop(k + 1, ranked_in_place(dataset, ranked))

\* the scores the loop of select_weak_ranker computes from the k-th candidate
\* on; a saturated candidate is skipped and stands as 0
weighted_loop(k, dataset) ==
    IF k > Len(features)
    THEN <<>>
    ELSE IF is_used(features[k])
    THEN <<0>> \o weighted_loop(k + 1, dataset)
    ELSE weighted_ranked(k, dataset, rank_by_weak(features[k], dataset))

weighted_scores == weighted_loop(1, training_dataset)

\* a rollback that leaves the pushed element in place
pop_nothing(v) == v

\* Vec::pop on a vector that is not empty
pop(v) == SubSeq(v, 1, Len(v) - 1)

\* what learn() did in one iteration, for the properties to refer to
Event(r) ==
    [kind |-> IF ~r.selected THEN "select_failed"
              ELSE IF r.panics THEN "panic"
              ELSE IF r.stops THEN "rolled_back"
              ELSE "accepted",
     iteration |-> it,
     feature |-> r.selected_feature,
     delta |-> r.delta,
     status |-> r.status,
     val_score |-> r.val_score,
     snapshot |-> r.selected /\ ~r.panics /\ r.snapshot,
     rankers |-> r.rankers,
     ranker_weights |-> r.ranker_weights,
     used_before |-> used_features,
     weighted |-> weighted_scores]

\* one iteration of the loop of learn()
LearnIteration ==
    /\ pc = "learning"
    /\ it < iter
    /\ \E r \in {Iteration} :
          /\ trace' = Append(trace, Event(r))
          /\ UNCHANGED <<config, score_training, fit_result, fits, entry, objects>>
          /\ IF ~r.selected
             THEN \* break: no weak ranker selected
                  /\ pc' = "stopped"
                  /\ training_dataset' = r.training_dataset
                  /\ UNCHANGED <<validation_dataset, saturation, score_validation,
                                 previous_scores, sample_weights, ensemble,
                                 checkpoint, history, it>>
             ELSE IF r.panics
             THEN \* the sort of an ensemble ranking met a NaN
                  /\ pc' = "panicked"
                  /\ UNCHANGED <<datasets, saturation, score_validation,
                                 previous_scores, sample_weights, ensemble,
                                 checkpoint, history, it>>
             ELSE /\ training_dataset' = r.training_dataset
                  /\ validation_dataset' =
                        [validation_dataset EXCEPT !.lists = r.validation_lists]
                  /\ consecutive_selections' = r.consecutive_selections
                  /\ used_features' = r.used_features
                  /\ previous_feature' = r.selected_feature
                  /\ score_validation' = IF r.snapshot THEN r.val_score
                                         ELSE score_validation
                  /\ best_rankers' = IF r.snapshot THEN r.rankers ELSE best_rankers
                  /\ best_weights' = IF r.snapshot THEN r.ranker_weights
                                     ELSE best_weights
                  /\ history' = IF build = "ltrs" THEN Append(history, r.record)
                                ELSE history
                  /\ IF r.stops
                     THEN \* delta <= 0.0: pop and break
                          /\ pc' = "stopped"
                          /\ rankers' = pop(r.rankers)
                          /\ ranker_weights' = pop(r.ranker_weights)
                          /\ UNCHANGED <<previous_scores, sample_weights, it>>
                     ELSE /\ rankers' = r.rankers
                          /\ ranker_weights' = r.ranker_weights
                          /\ previous_traning_score' = r.training_score
                          /\ previous_validation_score' = r.val_score
                          /\ sample_weights' = r.sample_weights
                          /\ it' = it + 1
                          /\ pc' = "learning"

\* the rest of fit(), once learn() has returned
FitReturn ==
    /\ \/ pc = "stopped"
       \/ pc = "learning" /\ it >= iter
    /\ LET take == best_rankers # <<>>
           rk == IF take THEN best_rankers ELSE rankers
           wt == IF take THEN best_weights ELSE ranker_weights
           panicsT == rank_dataset_panics(rk, wt, training_dataset)
           rankedT == rank_dataset(rk, wt, training_dataset)
           scoreT == evaluate_dataset(scorer, rankedT)
           trained == ranked_in_place(training_dataset, rankedT)
           hasV == validation_dataset.some
           panicsV == hasV /\ rank_dataset_panics(rk, wt, validation_dataset.lists)
           rankedV == rank_dataset(rk, wt, validation_dataset.lists)
           \* the ltrs copy ranks the validation dataset and evaluates the
           \* training dataset
           scoreV == IF build = "ltrs" THEN evaluate_dataset(scorer, trained)
                     ELSE evaluate_dataset(scorer, rankedV)
       IN /\ rankers' = rk
          /\ ranker_weights' = wt
          /\ best_rankers' = IF take THEN <<>> ELSE best_rankers
          /\ best_weights' = IF take THEN <<>> ELSE best_weights
          /\ UNCHANGED <<config, saturation, previous_scores, sample_weights,
                         history, it, fits, trace, entry, objects>>
          /\ IF rk = <<>>
             THEN /\ fit_result' = "NoRankers"
                  /\ pc' = "idle"
                  /\ UNCHANGED <<datasets, scores>>
             ELSE IF panicsT
             THEN /\ pc' = "panicked"
                  /\ UNCHANGED <<datasets, scores, fit_result>>
             ELSE IF ~scoreT.ok
             THEN \* `?`: the EvaluationError of an empty training dataset
                  /\ fit_result' = "EvaluationError"
                  /\ pc' = "idle"
                  /\ training_dataset' = trained
                  /\ UNCHANGED <<validation_dataset, scores>>
             ELSE IF panicsV
             THEN /\ pc' = "panicked"
                  /\ UNCHANGED <<datasets, scores, fit_result>>
             ELSE /\ fit_result' = "Ok"
                  /\ pc' = "idle"
                  /\ training_dataset' = trained
                  /\ validation_dataset' =
                        IF hasV
                        THEN [validation_dataset EXCEPT
                                 !.lists = ranked_in_place(validation_dataset.lists, rankedV)]
                        ELSE validation_dataset
                  /\ score_training' = scoreT.value
                  /\ score_validation' =
                        IF hasV THEN (IF scoreV.ok THEN scoreV.value ELSE 0)
                        ELSE 0

Next == FitCall \/ LearnIteration \/ FitReturn

Spec == Init /\ [][Next]_vars

----------------------------------------------------------------------------
(* The data types and the rankers on their own: a caller that holds a        *)
(* RankList, a DataSet or a DataPoint and calls their methods, the rankers   *)
(* and the evaluators on it                                                  *)

\* the rankers: a WeakRanker of one feature, an AdaRank ensemble
WeakRanker(feature_id) ==
    [kind |-> "WeakRanker", feature_id |-> feature_id,
     rankers |-> <<>>, ranker_weights |-> <<>>]
AdaRank(rk, wt) ==
    [kind |-> "AdaRank", feature_id |-> 0, rankers |-> rk, ranker_weights |-> wt]

\* Ranker::predict of either ranker
Ranker_predict(ranker, dp) ==
    IF ranker.kind = "WeakRanker"
    THEN WeakRanker_predict(ranker.feature_id, dp)
    ELSE AdaRank_predict(ranker.rankers, ranker.ranker_weights, dp,
                         IF Len(ranker.rankers) < Len(ranker.ranker_weights)
                         THEN Len(ranker.rankers) ELSE Len(ranker.ranker_weights))

\* the (index, score) pairs Ranker::rank collects, as the scores by index
score_per_index(ranker, points) ==
    Seq_of([i \in 1..Len(points) |-> Ranker_predict(ranker, points[i])])

\* Ranker::rank as a caller sees it: the permutation of the returned
\* RankListPermutation, with indices from 0, or the panic of the comparison
Ranker_rank(ranker, points) ==
    LET sorted(predicted) ==
            IF sort_panics(predicted)
            THEN [outcome |-> "panic", permutation |-> <<>>]
            ELSE [outcome |-> "ok",
                  permutation |->
                      LET order == sorted_indices(predicted)
                      IN Seq_of([i \in 1..Len(predicted) |-> order[i] - 1])]
    IN sorted(score_per_index(ranker, points))

\* Ranker::rank_dataset: rank() of every list, pushed in dataset order; a
\* panic of one rank() is a panic of the call
Ranker_rank_dataset(ranker, lists) ==
    LET each == Seq_of([i \in 1..Len(lists) |-> Ranker_rank(ranker, lists[i])])
    IN IF \E i \in 1..Len(lists) : each[i].outcome = "panic"
       THEN [outcome |-> "panic", permutations |-> <<>>]
       ELSE [outcome |-> "ok",
             permutations |-> Seq_of([i \in 1..Len(lists) |-> each[i].permutation])]

\* the items of the caller's lists: a relevant one, a non-relevant one, one of
\* a label above 1; the first and the third tie on feature 1
Items ==
    {DataPoint(1, <<Scale, 0>>), DataPoint(0, <<0, Scale>>),
     DataPoint(2, <<Scale, Scale>>)}

\* the lists of at most MaxLen items
Lists == UNION {[1..n -> Items] : n \in 0..MaxLen}

\* the permutation vectors: at most MaxLen indices from 0 to MaxLen, so
\* bijections, repeated indices, other lengths and indices beyond any list
PermutationVectors == UNION {[1..n -> 0..MaxLen] : n \in 0..MaxLen}

\* the datasets: those of the learners, and the one without lists
DataSets == TrainingSets \cup {<<>>}

\* the evaluators: MAP, and P@K up to one beyond the longest list
Evaluators == {MAP} \cup {Precision(K) : K \in 0..(MaxLen + 1)}

\* the rankers: a WeakRanker of every feature index up to one beyond the last
\* feature, the empty ensemble, an ensemble of two features, and the ensemble
\* of one infinite weight that fit() leaves behind when a feature ranks every
\* training list perfectly
Rankers ==
    {WeakRanker(k) : k \in 0..MaxFeatures}
    \cup {AdaRank(<<>>, <<>>), AdaRank(<<1, 2>>, <<Scale, Scale \div 2>>),
          AdaRank(<<1>>, <<PInf>>)}

\* the feature values and the feature vectors of the caller's DataPoint
FeatureValues == {0, Scale, 2 * Scale}
FeatureVectors == UNION {[1..n -> FeatureValues] : n \in 0..2}

\* a learner nobody calls: the caller works on the data types alone
NoLearner ==
    /\ scorer = MAP
    /\ iter = 0
    /\ max_consecutive_selections = 1
    /\ tolerance = 0
    /\ training_dataset = <<RankLists[1]>>
    /\ features_arg = [some |-> FALSE, value |-> <<>>]
    /\ features = default_features(training_dataset)
    /\ validation_dataset = [some |-> FALSE, lists |-> <<>>]
    /\ sample_weights = initialize_weights(Len(training_dataset))
    /\ consecutive_selections = 0
    /\ previous_feature = NoFeature
    /\ score_training = 0
    /\ score_validation = 0
    /\ previous_traning_score = 0
    /\ previous_validation_score = 0
    /\ rankers = <<>>
    /\ best_rankers = <<>>
    /\ ranker_weights = <<>>
    /\ best_weights = <<>>
    /\ used_features = {}
    /\ history = <<>>
    /\ it = 0
    /\ fit_result = "none"
    /\ fits = 0
    /\ trace = <<>>
    /\ entry = [training_dataset |-> training_dataset, rankers |-> <<>>,
                ranker_weights |-> <<>>, used_features |-> {}, history |-> <<>>,
                succeeded |-> FALSE, selected |-> <<>>]

\* FileSegment { start, end }
FileSegment(start, end) == [start |-> start, end |-> end]

\* DiskStack::push: the segment is appended to the stack file
DiskStack_push(stack, segment) == Append(stack, segment)

\* DiskStack::pop: None on an empty stack file (the seek before its start
\* fails), else the last segment, and the file is truncated by it
DiskStack_pop(stack) ==
    IF stack = <<>>
    THEN [some |-> FALSE, segment |-> FileSegment(0, 0), stack |-> stack]
    ELSE [some |-> TRUE, segment |-> stack[Len(stack)],
          stack |-> SubSeq(stack, 1, Len(stack) - 1)]

\* Storage::append: the bytes are written at the end of the file
Storage_append(st, bytes) ==
    [storage |-> [st EXCEPT !.file = @ \o bytes],
     segment |-> FileSegment(Len(st.file), Len(st.file) + Len(bytes))]

\* Storage::update_segment: all the bytes are written from segment.start on,
\* over what the file holds there and beyond its end if they reach it; the
\* segment is returned as it was given
Storage_update_segment(st, segment, bytes) ==
    [storage |->
        [st EXCEPT !.file =
            Seq_of([i \in 1..(IF segment.start + Len(bytes) > Len(st.file)
                              THEN segment.start + Len(bytes)
                              ELSE Len(st.file)) |->
                       IF i > segment.start /\ i <= segment.start + Len(bytes)
                       THEN bytes[i - segment.start]
                       ELSE st.file[i]])],
     segment |-> segment]

\* Storage::insert, given what the stack of deleted segments popped
Storage_insert_popped(st, popped, bytes) ==
    IF popped.some
    THEN Storage_update_segment([st EXCEPT !.stack = popped.stack],
                                popped.segment, bytes)
    ELSE Storage_append(st, bytes)

\* Storage::insert
Storage_insert(st, bytes) == Storage_insert_popped(st, DiskStack_pop(st.stack), bytes)

\* Storage::delete_segment
Storage_delete_segment(st, segment) ==
    [st EXCEPT !.stack = DiskStack_push(@, segment)]

\* Storage::read: self.storage.get(start..end) of the mapped file
Storage_read(st, segment) ==
    IF segment.start <= segment.end /\ segment.end <= Len(st.file)
    THEN [some |-> TRUE, bytes |-> SubSeq(st.file, segment.start + 1, segment.end)]
    ELSE [some |-> FALSE, bytes |-> <<>>]

\* the byte values of the messages
Bytes == {"a", "b"}

\* the messages a caller inserts: one byte or more
Messages == UNION {[1..n -> Bytes] : n \in 1..(MaxLen - 1)}

\* SVMLight::load_datapoint of a well-formed line, given as the fields it is
\* parsed into: the label, the query id and the feature values
load_datapoint(line) == DataPoint_new(line.label, line.qid, line.features)

\* the loop of SVMLight::load_dataset from the k-th line on
RECURSIVE load_lines(_, _, _, _, _)

\* the k-th line, parsed: it joins the current list when its query id differs
\* from current_query_id or current_query_id is 0; otherwise the current list
\* is pushed to the dataset and the line starts the next one
load_line(lines, k, current_query_id, current_rank_list, dataset, dp) ==
    IF dp.query_id # current_query_id \/ current_query_id = 0
    THEN load_lines(lines, k + 1, dp.query_id, Append(current_rank_list, dp), dataset)
    ELSE load_lines(lines, k + 1, dp.query_id, <<dp>>,
                    Append(dataset, current_rank_list))

load_lines(lines, k, current_query_id, current_rank_list, dataset) ==
    IF k > Len(lines)
    THEN Append(dataset, current_rank_list)
    ELSE load_line(lines, k, current_query_id, current_rank_list, dataset,
                   load_datapoint(lines[k]))

\* SVMLight::load_dataset of a buffer of well-formed lines
load_dataset(lines) == load_lines(lines, 1, 0, <<>>, <<>>)

\* the lines of a buffer: a label, a query id and no feature
Lines == {[label |-> l, qid |-> q, features |-> <<>>] : l \in {0, 1}, q \in 0..2}

\* the buffers a caller loads: up to MaxLen lines
Buffers == UNION {[1..n -> Lines] : n \in 0..MaxLen}

\* the caller constructs one object: RankList::new, a DataSet, DataPoint::new,
\* Storage::new, or has a buffer of SVM-light lines to load
DataInit ==
    /\ build \in {"adarank", "ltrs"}
    /\ NoLearner
    /\ pc = "idle"
    /\ call = NoCall
    /\ storage = EmptyStorage
    /\ live = {}
    /\ \/ /\ subject = "ranklist"
          /\ data_points \in Lists
          /\ data_set = <<>>
          /\ datapoint = DataPoint(0, <<>>)
       \/ /\ subject = "dataset"
          /\ data_points = <<>>
          /\ data_set \in DataSets
          /\ datapoint = DataPoint(0, <<>>)
       \/ /\ subject = "datapoint"
          /\ data_points = <<>>
          /\ data_set = <<>>
          /\ datapoint \in {DataPoint_new(l, q, fs) :
                                l \in {1, 2}, q \in {0, 1}, fs \in FeatureVectors}
       \/ /\ subject \in {"storage", "svmlight"}
          /\ data_points = <<>>
          /\ data_set = <<>>
          /\ datapoint = DataPoint(0, <<>>)

\* what no call on a data object touches
learner ==
    <<config, datasets, saturation, scores, previous_scores, sample_weights,
      ensemble, checkpoint, history, it, fit_result, fits, trace, entry, subject>>

\* the caller's position after a call: a panic ends the caller
after(outcome) == IF outcome = "panic" THEN "panicked" ELSE "idle"

\* ranklist.permute(permutation).  The caller then reads the list with get()
\* and makes no further call on it: the list a further call would start from is
\* one RankList::new constructs.
Permute ==
    /\ subject = "ranklist" /\ pc = "idle"
    /\ \E permutation \in PermutationVectors :
          \E r \in {RankList_permute(build, data_points, permutation)} :
             /\ data_points' = r.data_points
             /\ call' = [op |-> "permute", arg |-> permutation,
                         before |-> data_points, result |-> r]
             /\ pc' = IF r.outcome = "panic" THEN "panicked" ELSE "permuted"
    /\ UNCHANGED <<learner, disk, data_set, datapoint>>

\* ranker.rank(&ranklist)
Rank ==
    /\ subject = "ranklist" /\ pc = "idle"
    /\ \E ranker \in Rankers :
          \E r \in {Ranker_rank(ranker, data_points)} :
             /\ call' = [op |-> "rank", arg |-> ranker,
                         before |-> data_points, result |-> r]
             /\ pc' = after(r.outcome)
    /\ UNCHANGED <<learner, disk, data_points, data_set, datapoint>>

\* ranker.rank_dataset(&dataset)
RankDataset ==
    /\ subject = "dataset" /\ pc = "idle"
    /\ \E ranker \in Rankers :
          \E r \in {Ranker_rank_dataset(ranker, data_set)} :
             /\ call' = [op |-> "rank_dataset", arg |-> ranker,
                         before |-> data_set, result |-> r]
             /\ pc' = after(r.outcome)
    /\ UNCHANGED <<learner, disk, data_points, data_set, datapoint>>

\* evaluator.evaluate_ranklist(&ranklist)
EvaluateRanklist ==
    /\ subject = "ranklist" /\ pc = "idle"
    /\ \E ev \in Evaluators :
          call' = [op |-> "evaluate_ranklist", arg |-> ev,
                   before |-> data_points,
                   result |-> evaluate_ranklist(ev, data_points)]
    /\ UNCHANGED <<learner, disk, pc, data_points, data_set, datapoint>>

\* evaluator.evaluate_dataset(&dataset)
EvaluateDataset ==
    /\ subject = "dataset" /\ pc = "idle"
    /\ \E ev \in Evaluators :
          call' = [op |-> "evaluate_dataset", arg |-> ev,
                   before |-> data_set,
                   result |-> evaluate_dataset(ev, data_set)]
    /\ UNCHANGED <<learner, disk, pc, data_points, data_set, datapoint>>

\* WeakRanker::new(feature_id).predict(&datapoint)
Predict ==
    /\ subject = "datapoint" /\ pc = "idle"
    /\ \E feature_id \in 0..(MaxFeatures + 1) :
          call' = [op |-> "predict", arg |-> feature_id,
                   before |-> datapoint,
                   result |-> WeakRanker_predict(feature_id, datapoint)]
    /\ UNCHANGED <<learner, disk, pc, data_points, data_set, datapoint>>

\* datapoint.get_feature(index)
GetFeature ==
    /\ subject = "datapoint" /\ pc = "idle"
    /\ \E index \in 0..(MaxFeatures + 1) :
          call' = [op |-> "get_feature", arg |-> index,
                   before |-> datapoint,
                   result |-> get_feature(datapoint, index)]
    /\ UNCHANGED <<learner, disk, pc, data_points, data_set, datapoint>>

\* datapoint.add_feature(feature)
AddFeature ==
    /\ subject = "datapoint" /\ pc = "idle"
    /\ Len(datapoint.features) < MaxFeatures
    /\ \E feature \in FeatureValues :
          /\ datapoint' = add_feature(datapoint, feature)
          /\ call' = [op |-> "add_feature", arg |-> feature,
                      before |-> datapoint, result |-> "Ok"]
    /\ UNCHANGED <<learner, disk, pc, data_points, data_set>>

\* datapoint.set_features(features)
SetFeatures ==
    /\ subject = "datapoint" /\ pc = "idle"
    /\ \E new_features \in FeatureVectors :
          /\ datapoint' = set_features(datapoint, new_features)
          /\ call' = [op |-> "set_features", arg |-> new_features,
                      before |-> datapoint, result |-> "Ok"]
    /\ UNCHANGED <<learner, disk, pc, data_points, data_set>>

\* datapoint.set_feature(index, feature)
SetFeature ==
    /\ subject = "datapoint" /\ pc = "idle"
    /\ \E index \in 0..(MaxFeatures + 1), feature \in FeatureValues :
          \E r \in {set_feature(datapoint, index, feature)} :
             /\ datapoint' = r.datapoint
             /\ call' = [op |-> "set_feature", arg |-> <<index, feature>>,
                         before |-> datapoint, result |-> r]
             /\ pc' = after(r.outcome)
    /\ UNCHANGED <<learner, disk, data_points, data_set>>

\* the DataPoints the caller's DataPoint is compared with
OtherDataPoints ==
    {DataPoint_new(l, q, fs) : l \in 0..2, q \in {0, 1}, fs \in {<<>>, <<Scale>>}}

\* datapoint == other, datapoint != other, datapoint.cmp(&other)
Compare ==
    /\ subject = "datapoint" /\ pc = "idle"
    /\ \E other \in OtherDataPoints :
          call' = [op |-> "compare", arg |-> other, before |-> datapoint,
                   result |-> [eq |-> DataPoint_eq(datapoint, other),
                               ne |-> DataPoint_ne(datapoint, other),
                               cmp |-> DataPoint_cmp(datapoint, other)]]
    /\ UNCHANGED <<learner, disk, pc, data_points, data_set, datapoint>>

\* storage.insert(bytes), while the file stays within MaxLen + 1 bytes
Insert ==
    /\ subject = "storage" /\ pc = "idle"
    /\ \E bytes \in Messages :
          /\ Len(storage.file) + Len(bytes) <= MaxLen + 1
          /\ \E r \in {Storage_insert(storage, bytes)} :
                /\ storage' = r.storage
                /\ live' = {l \in live : l.segment # r.segment}
                               \cup {[segment |-> r.segment, bytes |-> bytes]}
                /\ call' = [op |-> "insert", arg |-> bytes, before |-> storage,
                            result |-> r.segment]
    /\ UNCHANGED <<learner, pc, data_points, data_set, datapoint>>

\* storage.delete_segment(segment) of a segment insert returned
DeleteSegment ==
    /\ subject = "storage" /\ pc = "idle"
    /\ \E l \in live :
          /\ storage' = Storage_delete_segment(storage, l.segment)
          /\ live' = live \ {l}
          /\ call' = [op |-> "delete_segment", arg |-> l.segment,
                      before |-> storage, result |-> "()"]
    /\ UNCHANGED <<learner, pc, data_points, data_set, datapoint>>

\* storage.read(segment) of a segment insert returned
ReadSegment ==
    /\ subject = "storage" /\ pc = "idle"
    /\ \E l \in live :
          call' = [op |-> "read", arg |-> l, before |-> storage,
                   result |-> Storage_read(storage, l.segment)]
    /\ UNCHANGED <<learner, disk, pc, data_points, data_set, datapoint>>

\* SVMLight::load_dataset(buffer)
LoadDataset ==
    /\ subject = "svmlight" /\ pc = "idle"
    /\ \E lines \in Buffers :
          /\ data_set' = load_dataset(lines)
          /\ call' = [op |-> "load_dataset", arg |-> lines, before |-> data_set,
                      result |-> "Ok"]
    /\ pc' = "loaded"
    /\ UNCHANGED <<learner, disk, data_points, datapoint>>

DataNext ==
    \/ Permute \/ Rank \/ RankDataset \/ EvaluateRanklist \/ EvaluateDataset
    \/ Predict \/ GetFeature \/ AddFeature \/ SetFeatures \/ SetFeature
    \/ Compare \/ Insert \/ DeleteSegment \/ ReadSegment \/ LoadDataset

DataSpec == DataInit /\ [][DataNext]_vars

----------------------------------------------------------------------------
(* What a caller observes between two calls *)

\* Learner::score: Err(NoRankers) on an empty ensemble, else the stored score
score ==
    IF rankers = <<>> THEN [ok |-> FALSE, value |-> 0]
    ELSE [ok |-> TRUE, value |-> score_training]

\* Learner::validation_score
validation_score ==
    IF rankers = <<>> THEN [ok |-> FALSE, value |-> 0]
    ELSE [ok |-> TRUE, value |-> score_validation]

\* Ranker::predict of the learner: the zip stops at the shorter vector
predict(dp) ==
    AdaRank_predict(rankers, ranker_weights, dp,
                    IF Len(rankers) < Len(ranker_weights) THEN Len(rankers)
                    ELSE Len(ranker_weights))

----------------------------------------------------------------------------
(* Properties *)

\* a call of fit() has returned to its caller and no other call has begun
Returned == pc = "idle" /\ fits > 0

\* the iterations of the current fit() whose weak ranker stayed in the ensemble
Accepted == {i \in DOMAIN trace : trace[i].kind = "accepted"}

\* C1, as stated: a fit() that has returned gave NoRankers exactly when none of
\* its iterations was accepted, and gave Ok when at least one was accepted.
C1_NoRankersIffNothingAccepted ==
    Returned =>
        /\ (fit_result = "NoRankers") <=> (Accepted = {})
        /\ (Accepted # {}) => (fit_result = "Ok")

\* the candidate set of the first iteration is empty or fully excluded
NoCandidateAtEntry == \A k \in DOMAIN features : features[k] \in entry.used_features

\* the fit() has no iteration, or its first iteration fails to select
FirstSelectionFails ==
    \/ iter = 0
    \/ NoCandidateAtEntry
    \/ trace # <<>> /\ trace[1].kind = "select_failed"

FiniteWeights ==
    /\ \A k \in DOMAIN ranker_weights : IsFinite(ranker_weights[k])
    /\ \A j \in DOMAIN sample_weights : IsFinite(sample_weights[j])

C3_SaturatedNeverSelected ==
    [][/\ used_features \subseteq used_features'
       /\ (Len(trace') > Len(trace)
              /\ trace'[Len(trace')].kind # "select_failed")
            => trace'[Len(trace')].feature \notin used_features]_vars

\* C3, witness: a feature was saturated by the first fit(), and an iteration of
\* the second fit() selected a feature and kept it
C3_Witness ==
    /\ fits = 2
    /\ entry.used_features # {}
    /\ \E i \in DOMAIN trace :
          /\ trace[i].kind = "accepted"
          /\ trace[i].used_before # {}

\* the f32 sum of the sample weights
WeightSum == FSum(sample_weights, Len(sample_weights))

\* C4, as stated, for a training dataset with lists and a learner whose
\* weights are all finite: the sample weights sum to 1 within 1e-4, at
\* construction and after every reweighting.
C4_WeightsSumToOne ==
    (training_dataset # <<>> /\ FiniteWeights) =>
        (IsFinite(WeightSum) /\ Abs(WeightSum - Scale) <= Scale \div 10000)

\* the list has items of both kinds, and the feature puts every relevant item
\* before every other item
Separates(feature_id, ranklist) ==
    LET ranked == rank(ranklist, scores_weak(feature_id, ranklist))
    IN /\ \E i \in DOMAIN ranked : ranked[i].label > 0
       /\ \E i \in DOMAIN ranked : ranked[i].label = 0
       /\ \A i, j \in DOMAIN ranked :
             (ranked[i].label > 0 /\ ranked[j].label = 0) => i < j

\* C5, as stated: when a candidate feature separates every list of the
\* training dataset and T >= 1, the first fit() returns Ok with an ensemble of
\* exactly one weak ranker and score() is positive.
C5_PerfectFeatureFitsOnce ==
    (/\ fits = 1 /\ pc \in {"idle", "panicked"} /\ iter >= 1
     /\ entry.training_dataset # <<>>
     /\ \E k \in DOMAIN features :
           \A i \in DOMAIN entry.training_dataset :
              Separates(features[k], entry.training_dataset[i]))
    => (/\ pc = "idle" /\ fit_result = "Ok"
        /\ Len(rankers) = 1
        /\ score.ok /\ score.value > 0)

\* the iterations of the current fit() that ranked and evaluated the ensemble
Evaluated == {i \in DOMAIN trace : trace[i].kind \in {"accepted", "rolled_back"}}

\* the iterations of the current fit() that wrote the validation checkpoint
Snapshots == {i \in DOMAIN trace : trace[i].snapshot}

\* the earliest iteration that attained the highest validation score of the run
EarliestBest ==
    CHOOSE i \in Evaluated :
        /\ \A j \in Evaluated : trace[j].val_score <= trace[i].val_score
        /\ \A j \in Evaluated : j < i => trace[j].val_score < trace[i].val_score

\* C6: when fit() leaves learn(), the ensemble becomes the one the earliest
\* iteration of the highest validation score had built, if the run wrote a
\* checkpoint, and stays the working ensemble otherwise.
C6_FinalEnsembleIsEarliestBest ==
    [][(pc # "idle" /\ pc' = "idle") =>
          IF Snapshots # {}
          THEN /\ rankers' = trace[EarliestBest].rankers
               /\ ranker_weights' = trace[EarliestBest].ranker_weights
          ELSE /\ rankers' = rankers
               /\ ranker_weights' = ranker_weights]_vars

\* C6, witness: a fit() returned the checkpoint of an iteration after which
\* another iteration was accepted
C6_Witness ==
    /\ Returned
    /\ Snapshots # {}
    /\ \E j \in Accepted : j > EarliestBest
    /\ rankers = trace[EarliestBest].rankers
    /\ Len(rankers) < Cardinality(Accepted)

\* the mean metric of the validation dataset as ranked by the ensemble
ValidationMean ==
    evaluate_dataset(scorer,
                     rank_dataset(rankers, ranker_weights,
                                  validation_dataset.lists))

\* C7, as stated, for learners whose weights are all finite: after a fit()
\* that accepted an iteration and returned Ok, validation_score() is the mean
\* metric of the validation dataset ranked by the final ensemble, and 0.0 when
\* there is no validation dataset or it is empty.
C7_ValidationScoreOfFinalEnsemble ==
    (Returned /\ fit_result = "Ok" /\ Accepted # {} /\ FiniteWeights) =>
        /\ validation_score.ok
        /\ validation_score.value =
              IF validation_dataset.some /\ ValidationMean.ok
              THEN ValidationMean.value
              ELSE 0

\* a fit() of this learner has returned Ok
Succeeded == entry.succeeded \/ fit_result = "Ok"

\* C8, as stated: between calls, score() and validation_score() return Ok only
\* when a fit() has returned Ok, and NoRankers before that.
C8_ScoresOnlyAfterSuccess ==
    (pc = "idle" /\ ~Succeeded) => (~score.ok /\ ~validation_score.ok)

\* the records the current fit() has appended to history
Appended == SubSeq(history, Len(entry.history) + 1, Len(history))

\* C9, in every state: a fit() has run at most T iterations; every iteration
\* before the last selected a weak ranker and had delta > 0 or NaN; history is
\* what it was at the call followed by one record for each iteration that
\* passed selection, in iteration order.
C9_State ==
    /\ it <= iter
    /\ Len(trace) <= iter
    /\ \A i \in 1..(Len(trace) - 1) :
          /\ trace[i].kind # "select_failed"
          /\ ~FLe(trace[i].delta, 0)
    /\ Len(history) >= Len(entry.history)
    /\ SubSeq(history, 1, Len(entry.history)) = entry.history
    /\ Len(Appended) <= iter
    /\ build = "ltrs" =>
          /\ Len(Appended) = Cardinality(Evaluated)
          /\ \A k \in DOMAIN Appended :
                /\ Appended[k].iteration = k - 1
                /\ Appended[k].feature = trace[k].feature
                /\ Appended[k].status = trace[k].status

PredictItems ==
    {DataPoint(1, <<Scale, 0>>), DataPoint(0, <<0, Scale>>),
     DataPoint(0, <<2 * Scale>>), DataPoint(1, <<>>)}

\* what the k-th member of the ensemble adds to the score of an item: 0.0 when
\* its index is 0 or beyond the features of the item
Contribution(k, dp) ==
    IF rankers[k] = 0 \/ rankers[k] > Len(dp.features) THEN 0
    ELSE FMul(ranker_weights[k], dp.features[rankers[k]])

\* the sum of the contributions of the first n members
RECURSIVE ContributionSum(_, _)
ContributionSum(n, dp) ==
    IF n = 0 THEN 0 ELSE FAdd(ContributionSum(n - 1, dp), Contribution(n, dp))

\* C10, as stated: after a fit() that returned Ok, predict(item) is the sum
\* over the ensemble of weight times feature value, where a member whose index
\* is 0 or beyond the features of the item adds 0.0; 0.0 for no member.
C10_PredictIsWeightedSum ==
    (Returned /\ fit_result = "Ok") =>
        \A dp \in PredictItems : predict(dp) = ContributionSum(Len(rankers), dp)

(***************************************************************************)
(* C11: the default candidate features                                     *)
(***************************************************************************)

\* the number of features of the items of the first training list
NumFeatures == Len(training_dataset[1][1].features)

\* C11: a learner constructed without an explicit feature subset has the
\* candidate set 1, ..., F, where F is the number of features of the items
\* of the first training list, whatever the number of items of that list.
C11_DefaultFeaturesAreAllFeatures ==
    ~features_arg.some => features = [i \in 1..NumFeatures |-> i]

(***************************************************************************)
(* C12: the ordering rank() and rank_dataset() return                      *)
(***************************************************************************)

\* a vector that holds every index 0, ..., len - 1 exactly once
IsBijection(permutation, len) ==
    /\ Len(permutation) = len
    /\ {permutation[i] : i \in 1..Len(permutation)} = 0..(len - 1)

\* an ordering of the list in which the predicted scores do not increase and
\* items of equal predicted score keep their original relative order
IsStableDescending(ranker, points, permutation) ==
    /\ IsBijection(permutation, Len(points))
    /\ \A i, j \in 1..Len(permutation) :
          i < j =>
             LET a == Ranker_predict(ranker, points[permutation[i] + 1])
                 b == Ranker_predict(ranker, points[permutation[j] + 1])
             IN /\ ~IsNaN(a) /\ ~IsNaN(b)
                /\ a >= b
                /\ (a = b => permutation[i] < permutation[j])

\* C12, as stated: for any ranker and any list, rank(list) yields a bijection
\* of the original indices in which predicted scores are non-increasing and
\* items of equal predicted score keep their original order; rank_dataset
\* yields exactly this ordering for every list of the dataset, in dataset
\* order.
C12_RankIsStableDescending ==
    /\ call.op = "rank" =>
          /\ call.result.outcome = "ok"
          /\ IsStableDescending(call.arg, call.before, call.result.permutation)
    /\ call.op = "rank_dataset" =>
          /\ call.result.outcome = "ok"
          /\ Len(call.result.permutations) = Len(call.before)
          /\ \A i \in 1..Len(call.before) :
                IsStableDescending(call.arg, call.before[i],
                                   call.result.permutations[i])

(***************************************************************************)
(* C13, C14: RankList::permute                                             *)
(***************************************************************************)

\* the last call was permute(P) with a bijection P over the indices of the list
PermutedByBijection ==
    /\ call.op = "permute"
    /\ IsBijection(call.arg, Len(call.before))

\* C13: for any RankList and any bijection P over 0..len-1, after permute(P)
\* succeeds, get(i) returns the item that was at index P[i] before the call,
\* for every i, and the length is unchanged.
C13_PermuteMovesItems ==
    (PermutedByBijection /\ call.result.outcome = "ok") =>
        /\ Len(data_points) = Len(call.before)
        /\ \A i \in 0..(Len(call.before) - 1) :
              /\ RankList_get(data_points, i).ok
              /\ RankList_get(data_points, i).value
                    = RankList_get(call.before, call.arg[i + 1]).value

\* a list of three different items has been permuted by a bijection that
\* moves every item; the call succeeded
C13_Witness ==
    /\ PermutedByBijection
    /\ call.result.outcome = "ok"
    /\ Len(call.before) = 3
    /\ Cardinality({call.before[i] : i \in 1..3}) = 3
    /\ call.arg = <<1, 2, 0>>

\* C14, as stated, for the copy of RankList whose permute() returns a Result:
\* permute(P) fails with RankListIndexOutOfBounds for every P that is not a
\* bijection over 0..len-1 (an index >= len, a repeated index, or a P whose
\* length differs from the list's), and the list is left unchanged by the
\* failed call.
C14_NonBijectionIsRejected ==
    ( /\ build = "adarank"
      /\ call.op = "permute"
      /\ ~IsBijection(call.arg, Len(call.before)) ) =>
        /\ call.result.outcome = "err"
        /\ call.result.error = "RankListIndexOutOfBounds"
        /\ data_points = call.before

\* what the copy of RankList that returns a Result does hold: an index beyond
\* the list is rejected with that index and the list is left as it was
IndexBeyondListIsRejected ==
    ( /\ build = "adarank"
      /\ call.op = "permute"
      /\ out_of_bounds(call.before, call.arg) # {} ) =>
        /\ call.result.outcome = "err"
        /\ call.result.error = "RankListIndexOutOfBounds"
        /\ call.result.index >= Len(call.before)
        /\ data_points = call.before

(***************************************************************************)
(* C15: Evaluator::evaluate_dataset                                        *)
(***************************************************************************)

\* the sum of evaluate_ranklist over the first n lists
RECURSIVE SumOverLists(_, _, _)
SumOverLists(ev, lists, n) ==
    IF n = 0 THEN 0
    ELSE FAdd(SumOverLists(ev, lists, n - 1), evaluate_ranklist(ev, lists[n]))

\* C15: evaluate_dataset returns EvaluationError exactly when the dataset has
\* no lists, and otherwise returns the sum of evaluate_ranklist over all lists
\* divided by the number of lists.
C15_EvaluateDatasetIsMean ==
    call.op = "evaluate_dataset" =>
        IF Len(call.before) = 0
        THEN ~call.result.ok /\ call.result.error = "EvaluationError"
        ELSE /\ call.result.ok
             /\ call.result.value
                   = FDiv(SumOverLists(call.arg, call.before, Len(call.before)),
                          Len(call.before) * Scale)

\* a dataset of two lists of different scores has been evaluated
C15_Witness ==
    /\ call.op = "evaluate_dataset"
    /\ Len(call.before) = 2
    /\ evaluate_ranklist(call.arg, call.before[1])
          # evaluate_ranklist(call.arg, call.before[2])
    /\ call.result.ok
    /\ call.result.value > 0

(***************************************************************************)
(* C16, C17, C18: the evaluators                                           *)
(***************************************************************************)

\* the 1-indexed positions of the items with label > 0
RelevantPositions(list) == {p \in 1..Len(list) : list[p].label > 0}

\* the sum, over the positions of a set, of (relevant items at positions <= p) / p
RECURSIVE SumOfPrecisions(_, _)
SumOfPrecisions(list, positions) ==
    IF positions = {} THEN 0
    ELSE LET p == CHOOSE q \in positions : \A r \in positions : r <= q
         IN FAdd(SumOfPrecisions(list, positions \ {p}),
                 FDiv(Cardinality({q \in RelevantPositions(list) : q <= p}) * Scale,
                      p * Scale))

\* the last call was MAP.evaluate_ranklist
EvaluatedByMAP == call.op = "evaluate_ranklist" /\ call.arg = MAP

\* C16: MAP.evaluate_ranklist of a list in its given order equals the sum,
\* over the positions p of the items with label > 0, of (number of items with
\* label > 0 at positions <= p) / p, divided by the number of items with
\* label > 0, and equals 0 when no item has label > 0; the result lies in
\* [0, 1].
C16_MAPFormula ==
    EvaluatedByMAP =>
        /\ call.result =
              (IF RelevantPositions(call.before) = {} THEN 0
               ELSE FDiv(SumOfPrecisions(call.before, RelevantPositions(call.before)),
                         Cardinality(RelevantPositions(call.before)) * Scale))
        /\ 0 <= call.result /\ call.result <= Scale

\* MAP has evaluated a list that starts with a non-relevant item and holds an
\* item of label 1 and an item of label 2: the score is strictly inside (0, 1)
C16_Witness ==
    /\ EvaluatedByMAP
    /\ Len(call.before) = 3
    /\ call.before[1].label = 0
    /\ {call.before[2].label, call.before[3].label} = {1, 2}
    /\ 0 < call.result /\ call.result < Scale

\* the last call was Precision::new(K).evaluate_ranklist
EvaluatedByPrecision == call.op = "evaluate_ranklist" /\ call.arg.metric = "P"

\* the positions of the items with label exactly 1 among the first K
ExactlyOneInTop(list, K) ==
    {p \in 1..Len(list) : p <= K /\ list[p].label = 1}

OtherFeatures == {<<>>, <<2 * Scale>>}

\* the lists that have the labels of a list position by position, every item
\* with one of the other feature vectors and with the query id 0 or 1
SameLabels(list) ==
    {Seq_of([i \in 1..Len(list) |->
                DataPoint_new(list[i].label, other[i][1], other[i][2])]) :
        other \in [1..Len(list) -> {0, 1} \X OtherFeatures]}

\* C18: for any two lists whose items have the same labels position by
\* position, MAP and Precision@K return the same value, whatever the feature
\* values and query ids of the items (descriptions are read by no evaluator
\* and are not part of an item here).
C18_EvaluationDependsOnLabelsOnly ==
    call.op = "evaluate_ranklist" =>
        \A other \in SameLabels(call.before) :
            evaluate_ranklist(call.arg, other) = call.result

\* a list of two or more items with a relevant and a non-relevant item has
\* been given a score above 0, and the lists of the same labels differ from it
C18_Witness ==
    /\ call.op = "evaluate_ranklist"
    /\ Len(call.before) >= 2
    /\ \E p, q \in 1..Len(call.before) :
          call.before[p].label = 0 /\ call.before[q].label = 1
    /\ call.result > 0
    /\ call.before \notin SameLabels(call.before)

(***************************************************************************)
(* C19: WeakRanker::predict                                                *)
(***************************************************************************)

\* C19: WeakRanker(k).predict(item) equals the item's feature k when
\* 1 <= k <= number of features of the item, and equals 0.0 when k = 0 or k
\* exceeds that number; it never fails.
C19_WeakRankerPredict ==
    call.op = "predict" =>
        call.result =
            (IF 1 <= call.arg /\ call.arg <= Len(call.before.features)
             THEN call.before.features[call.arg]
             ELSE 0)

\* a WeakRanker of a feature index beyond the features of an item whose
\* features are all above 0.0 has predicted 0.0 for it
C19_Witness ==
    /\ call.op = "predict"
    /\ Len(call.before.features) = 2
    /\ \A k \in 1..2 : call.before.features[k] > 0
    /\ call.arg = 3
    /\ call.result = 0

(***************************************************************************)
(* C20: DataPoint::get_feature                                             *)
(***************************************************************************)

\* what get_feature(i) is to return for a DataPoint of the given features
Feature(features_of, i) ==
    IF 1 <= i /\ i <= Len(features_of)
    THEN [ok |-> TRUE, value |-> features_of[i], error |-> "none", index |-> i]
    ELSE [ok |-> FALSE, value |-> 0, error |-> "FeatureIndexOutOfBounds",
          index |-> i]

\* C20: get_feature(i) returns features[i-1] (the i-th feature) for
\* 1 <= i <= number of features and FeatureIndexOutOfBounds(i) for i = 0 and
\* for i greater than the number of features, also after features were added
\* with add_feature or replaced with set_features.
C20_GetFeatureIsOneBased ==
    /\ call.op = "get_feature" =>
          call.result = Feature(call.before.features, call.arg)
    /\ call.op = "add_feature" =>
          \A i \in 0..(MaxFeatures + 1) :
             get_feature(datapoint, i)
                = Feature(Append(call.before.features, call.arg), i)
    /\ call.op = "set_features" =>
          \A i \in 0..(MaxFeatures + 1) :
             get_feature(datapoint, i) = Feature(call.arg, i)

\* a DataPoint constructed with two features has got a third one from
\* add_feature, and get_feature(3) has returned it
C20_Witness ==
    /\ call.op = "get_feature"
    /\ Len(datapoint.features) = 3
    /\ call.arg = 3
    /\ call.result.ok
    /\ call.result.value = datapoint.features[3]
    /\ datapoint.features[3] # datapoint.features[2]

(***************************************************************************)
(* C21: equality and ordering of DataPoints                                *)
(***************************************************************************)

\* the ordering of two labels
LabelOrdering(a, b) ==
    IF a < b THEN "Less" ELSE IF a = b THEN "Equal" ELSE "Greater"

\* C21: two DataPoints compare equal exactly when their label and query_id
\* are both equal, whatever their features; this equality is reflexive,
\* symmetric and transitive; the ordering of two DataPoints is the ordering
\* of their labels alone.
C21_EqualityAndOrdering ==
    call.op = "compare" =>
        /\ call.result.eq <=> ( /\ call.before.label = call.arg.label
                                /\ call.before.query_id = call.arg.query_id )
        /\ call.result.ne <=> ~call.result.eq
        /\ DataPoint_eq(call.before, call.before)
        /\ DataPoint_eq(call.arg, call.arg)
        /\ DataPoint_eq(call.arg, call.before) <=> call.result.eq
        /\ \A third \in OtherDataPoints :
              (call.result.eq /\ DataPoint_eq(call.arg, third))
                 => DataPoint_eq(call.before, third)
        /\ call.result.cmp = LabelOrdering(call.before.label, call.arg.label)

\* two DataPoints of the same label and query id and of different features
\* have compared equal
C21_Witness ==
    /\ call.op = "compare"
    /\ call.before.features # call.arg.features
    /\ call.before.query_id = 1
    /\ call.result.eq
    /\ call.result.cmp = "Equal"

(***************************************************************************)
(* C22: the selection step                                                 *)
(***************************************************************************)

\* the positions of the candidates that were not saturated when the
\* iteration of an event started
Live(e) == {k \in 1..Len(features) : features[k] \notin e.used_before}

\* the position of the candidate the claim selects for an event: the
\* earliest live candidate whose weighted score no live candidate exceeds
Largest(e) ==
    {k \in Live(e) :
        /\ FLe(0, e.weighted[k])
        /\ \A j \in Live(e) :
              /\ ~FGt(e.weighted[j], e.weighted[k])
              /\ (j < k => e.weighted[j] # e.weighted[k])}

\* C22: the selection step returns, among the candidate features that are not
\* in the saturated set, the feature with the largest weighted score, the
\* earliest one in candidate order on ties; it returns no ranker exactly when
\* no non-saturated candidate has a weighted score >= 0.
C22_SelectsLargestWeightedScore ==
    \A t \in 1..Len(trace) :
        IF trace[t].kind = "select_failed"
        THEN \A k \in Live(trace[t]) : ~FLe(0, trace[t].weighted[k])
        ELSE /\ \E k \in Live(trace[t]) : FLe(0, trace[t].weighted[k])
             /\ \E k \in Largest(trace[t]) : trace[t].feature = features[k]

\* the second of two live candidates of the same weighted score was passed
\* over for the first
C22_Witness ==
    \E t \in 1..Len(trace) :
        /\ trace[t].kind # "select_failed"
        /\ Len(features) = 2
        /\ Live(trace[t]) = {1, 2}
        /\ trace[t].weighted[1] = trace[t].weighted[2]
        /\ trace[t].weighted[1] > 0
        /\ trace[t].feature = features[1]

(***************************************************************************)
(* C23: saturation                                                         *)
(***************************************************************************)

\* the features this learner has selected since it was constructed, over all
\* its fit() calls, in order
Selected == entry.selected \o selections(trace)

\* the iterations of the current fit() that added their feature to the
\* saturated set, as positions of Selected
SaturatedAt ==
    {Len(entry.selected) + t : t \in {u \in 1..Len(trace) :
                                         /\ has_selected(trace[u])
                                         /\ trace[u].status = "Satured"}}

\* C23, as stated, with the iterations of earlier fit() calls counted as
\* iterations of the run: whenever a feature f is added to the saturated set
\* at iteration t, f was the selected feature of each of the S + 1 consecutive
\* iterations t - S, ..., t.
C23_SaturationCountsConsecutiveRepeats ==
    \A t \in SaturatedAt :
        /\ t - max_consecutive_selections >= 1
        /\ \A u \in (t - max_consecutive_selections)..t : Selected[u] = Selected[t]

(***************************************************************************)
(* C24: the status of a history record                                     *)
(***************************************************************************)

\* the iterations of the current fit() that were rolled back, as positions of
\* trace (and of Appended: a record is appended by every iteration that passed
\* selection and did not panic, in iteration order)
RolledBack == {t \in 1..Len(trace) : trace[t].kind = "rolled_back"}

\* C24: in the copy that keeps history, a record has status Bad if and only if
\* its iteration had delta <= 0 and its weak ranker was rolled back; every
\* rolled-back iteration has exactly one record, the last one of its fit()
\* call, with status Bad.
C24_BadIffRolledBack ==
    build = "ltrs" =>
        /\ \A k \in DOMAIN Appended :
              (Appended[k].status = "Bad") <=>
                  (FLe(trace[k].delta, 0) /\ k \in RolledBack)
        /\ \A t \in RolledBack :
              /\ t = Len(Appended)
              /\ Appended[t].iteration = trace[t].iteration
              /\ \A k \in DOMAIN Appended :
                    Appended[k].iteration = trace[t].iteration => k = t
              /\ Appended[t].status = "Bad"

(***************************************************************************)
(* C25: an iteration that stops training                                   *)
(***************************************************************************)

\* C25: an iteration of learn() that stops training, because selection failed
\* or because delta <= 0, leaves the working ensemble, the sample weights and
\* the stored previous training and validation scores as they were when the
\* iteration started.
C25_StoppingIterationRestores ==
    [][(pc = "learning" /\ pc' = "stopped") =>
          /\ rankers' = rankers
          /\ ranker_weights' = ranker_weights
          /\ sample_weights' = sample_weights
          /\ previous_traning_score' = previous_traning_score
          /\ previous_validation_score' = previous_validation_score]_vars

\* C25, witness: the third iteration of a fit() was rolled back and left the
\* two weak rankers of the iterations before it
C25_Witness ==
    /\ pc = "stopped"
    /\ Len(trace) = 3
    /\ trace[3].kind = "rolled_back"
    /\ Len(trace[3].rankers) = Len(rankers) + 1
    /\ rankers = trace[2].rankers
    /\ ranker_weights = trace[2].ranker_weights

(***************************************************************************)
(* C26: the members of the final ensemble                                  *)
(***************************************************************************)

\* the iteration of the current fit() that appended the k-th member of an
\* ensemble, for a k beyond the members the learner had at the call
AppendedBy(k) == k - Len(entry.rankers)

\* C26: when fit() has returned, the list of rankers and the list of weights
\* are of the same length, every (ranker, weight) pair the call added to the
\* ensemble was appended by an iteration with delta > 0, and the ensemble is
\* not the one a rolled-back iteration had before its rollback, whether or
\* not a validation checkpoint is used.
C26_FinalEnsembleIsAccepted ==
    Returned =>
        /\ Len(rankers) = Len(ranker_weights)
        /\ \A k \in (Len(entry.rankers) + 1)..Len(rankers) :
              /\ AppendedBy(k) \in DOMAIN trace
              /\ trace[AppendedBy(k)].kind = "accepted"
              /\ FGt(trace[AppendedBy(k)].delta, 0)
              /\ rankers[k] = trace[AppendedBy(k)].feature
              /\ ranker_weights[k] = trace[AppendedBy(k)].ranker_weights[k]
        /\ \A t \in RolledBack :
              Len(rankers) < Len(trace[t].rankers)

(***************************************************************************)
(* C27: the ensemble weights are finite                                    *)
(***************************************************************************)

\* the amount to say an iteration computed and pushed: the last weight of the
\* ensemble it evaluated
Computed(e) == e.ranker_weights[Len(e.ranker_weights)]

\* C27: every ensemble weight an iteration computes is finite (the
\* denominator of its ratio is nonzero and the ratio is positive and finite),
\* and so is every weight stored in the ensemble and in the checkpoint, also
\* when every list of the training dataset scores 1.
C27_WeightsAreFinite ==
    /\ \A t \in 1..Len(trace) :
          trace[t].kind # "select_failed" => IsFinite(Computed(trace[t]))
    /\ \A k \in DOMAIN ranker_weights : IsFinite(ranker_weights[k])
    /\ \A k \in DOMAIN best_weights : IsFinite(best_weights[k])

(***************************************************************************)
(* C28: DataPoint::set_feature                                             *)
(***************************************************************************)

\* the last call was datapoint.set_feature(i, v)
SetOneFeature == call.op = "set_feature"

\* C28: for a DataPoint with n features, set_feature(i, v) returns
\* FeatureIndexOutOfBounds(i) and leaves the features unchanged when i = 0 or
\* i > n; for 1 <= i <= n it returns Ok and replaces exactly the i-th feature
\* (features[i - 1] of the vector) by v.
C28_SetFeatureIsOneBased ==
    SetOneFeature =>
        LET i == call.arg[1]
            v == call.arg[2]
            n == Len(call.before.features)
        IN IF i = 0 \/ i > n
           THEN /\ call.result.outcome = "err"
                /\ call.result.error = "FeatureIndexOutOfBounds"
                /\ call.result.index = i
                /\ datapoint = call.before
           ELSE /\ call.result.outcome = "ok"
                /\ datapoint.label = call.before.label
                /\ datapoint.query_id = call.before.query_id
                /\ Len(datapoint.features) = n
                /\ datapoint.features[i] = v
                /\ \A k \in (1..n) \ {i} :
                      datapoint.features[k] = call.before.features[k]

(***************************************************************************)
(* C29: Storage                                                            *)
(***************************************************************************)

\* C29: after any sequence of insert and delete_segment calls, read(s) of a
\* segment s that insert returned and that was not deleted since returns
\* exactly the bytes that insert was given, also when the insert reused a
\* deleted segment for bytes of another length; an insert therefore never
\* changes what read returns for the other live segments.
C29_ReadReturnsInserted ==
    subject = "storage" =>
        \A l \in live :
            Storage_read(storage, l.segment) = [some |-> TRUE, bytes |-> l.bytes]

(***************************************************************************)
(* C30: SVMLight::load_dataset                                             *)
(***************************************************************************)

\* the items of the lists of a dataset, in order
RECURSIVE Concatenation(_)
Concatenation(lists) ==
    IF lists = <<>> THEN <<>>
    ELSE Concatenation(SubSeq(lists, 1, Len(lists) - 1)) \o lists[Len(lists)]

\* the parsed lines of a buffer
Parsed(lines) == Seq_of([k \in 1..Len(lines) |-> load_datapoint(lines[k])])

\* C30: load_dataset returns one RankList for every maximal run of
\* consecutive lines of the same query id, in the order of the input: every
\* RankList is non-empty, its items have one query id, two RankLists that
\* follow each other differ in query id, and the RankLists concatenated are
\* the parsed lines.
C30_OneListPerRun ==
    call.op = "load_dataset" =>
        /\ \A i \in DOMAIN data_set :
              /\ data_set[i] # <<>>
              /\ \A p, q \in DOMAIN data_set[i] :
                    data_set[i][p].query_id = data_set[i][q].query_id
        /\ \A i \in 1..(Len(data_set) - 1) :
              data_set[i][Len(data_set[i])].query_id # data_set[i + 1][1].query_id
        /\ Concatenation(data_set) = Parsed(call.arg)

====
